---- MODULE Spec2Model ----
(***************************************************************************)
(* The progress-tracking and cancellation protocol of the YTDownloader     *)
(* variants: YoutubeDownloader (the runner) and DownloadManagerApp (the    *)
(* observer), with the Tk foreground thread, the download worker threads   *)
(* and the fetch threads as processes.                                     *)
(*                                                                         *)
(*   Spec      YTDownloader2025_SonnetEditsV7_TP.py                        *)
(*   SpecSeq   the same, its downloads one after another, with more        *)
(*             progress callbacks in each                                  *)
(*   FairSpec  SpecSeq with weak fairness of every worker thread           *)
(*   SpecTitle SpecSeq with two videos and fewer callbacks                 *)
(*   Spec71    YTDownloader2025v7.1.py, one download at a time             *)
(*   Spec71Par the same, with the Return key and concurrent downloads      *)
(*   Spec25    YTDownloader2025.py                                         *)
(*   SpecQueue the third program of src/unnamed/part_000, whose worker     *)
(*             threads report to the foreground thread through a queue     *)
(*   SpecHook  YoutubeDownloader.progress_hook fed sequences of            *)
(*             'downloading' callbacks                                     *)
(***************************************************************************)
EXTENDS Integers, Sequences, FiniteSets, TLC

\* ------------------------------------------------------------------ bounds
MaxOps == 2         \* download worker threads alive at once
MaxCallbacks == 1   \* raw progress callbacks made to the downloads alive at once
MaxSeqOps == 1      \* the same two bounds, in the specification of downloads
MaxSeqCallbacks == 3    \* that run one after another
MaxFetches == 1     \* fetch threads alive at once
MaxQueue == 1       \* batches of root.after callbacks queued and not yet run
MaxTotal == 50      \* largest total_bytes a callback reports
MaxDownloaded == 55 \* largest downloaded_bytes a callback reports
MaxFiles71 == 3     \* v7.1: files in download_dir and downloads running, together
MaxDownloadsQ == 2  \* queue variant: downloads started
MaxCallbacksQ == 2  \* queue variant: raw progress callbacks made to each download

Ops == 1..MaxOps
SeqOps == 1..MaxSeqOps
None == "None"
\* self.ydl_instance = None; a set ydl_instance is the number of the worker
\* whose YoutubeDL object it is
NoYdl == 0

\* ------------------------------------------------- Python float arithmetic
\* A positive double is [m |-> <<l1, l2, l3, l4>>, e |-> exponent]: the 52
\* fraction bits below the implicit leading 1, as four limbs of 13 bits, so
\* that its value is (1 + (l1*B^3 + l2*B^2 + l3*B + l4) / 2^52) * 2^e.
\* The operands of this model stay below 2^17, which keeps every
\* intermediate product inside TLC's integers.
RECURSIVE Pow2(_)
Pow2(n) == IF n = 0 THEN 1 ELSE 2 * Pow2(n - 1)

LimbBase == Pow2(13)

RECURSIVE NormExp(_, _)
\* the e with 2^e <= a / b < 2^(e+1), for integers a, b > 0
NormExp(a, b) ==
    IF a >= b THEN (IF a >= 2 * b THEN 1 + NormExp(a, 2 * b) ELSE 0)
    ELSE NormExp(2 * a, b) - 1

RECURSIVE BitLen(_)
BitLen(n) == IF n = 0 THEN 0 ELSE 1 + BitLen(n \div 2)

\* the fraction m plus one unit in the last place; the exponent grows when the
\* carry runs out of the fraction
IncUlp(m, e) ==
    LET n4 == m[4] + 1
        n3 == m[3] + n4 \div LimbBase
        n2 == m[2] + n3 \div LimbBase
        n1 == m[1] + n2 \div LimbBase
    IN  IF n1 \div LimbBase = 1
        THEN [m |-> <<0, 0, 0, 0>>, e |-> e + 1]
        ELSE [m |-> <<n1, n2 % LimbBase, n3 % LimbBase, n4 % LimbBase>>, e |-> e]

\* a / b in Python for ints a, b > 0: the correctly rounded double quotient
\* (long division to 52 fraction bits, a guard bit and a sticky remainder,
\* rounded half to even)
FloatDiv(a, b) ==
    LET e   == NormExp(a, b)
        num == IF e < 0 THEN a * Pow2(-e) ELSE a
        den == IF e > 0 THEN b * Pow2(e) ELSE b
        r0  == num - den
        l1  == (r0 * LimbBase) \div den
        r1  == (r0 * LimbBase) % den
        l2  == (r1 * LimbBase) \div den
        r2  == (r1 * LimbBase) % den
        l3  == (r2 * LimbBase) \div den
        r3  == (r2 * LimbBase) % den
        l4  == (r3 * LimbBase) \div den
        r4  == (r3 * LimbBase) % den
        guard  == 2 * r4 >= den
        sticky == (IF guard THEN 2 * r4 - den ELSE 2 * r4) # 0
        up     == guard /\ (sticky \/ l4 % 2 = 1)
    IN  IF up THEN IncUlp(<<l1, l2, l3, l4>>, e)
        ELSE [m |-> <<l1, l2, l3, l4>>, e |-> e]

\* x * k in Python for a double x and an int k in 1..127 (k is exact as a
\* double): the exact product, rounded half to even to 53 bits
FloatMulInt(x, k) ==
    LET t4  == x.m[4] * k
        t3  == x.m[3] * k + t4 \div LimbBase
        t2  == x.m[2] * k + t3 \div LimbBase
        t1  == x.m[1] * k + t2 \div LimbBase
        top == k + t1 \div LimbBase
        p1  == t1 % LimbBase
        p2  == t2 % LimbBase
        p3  == t3 % LimbBase
        p4  == t4 % LimbBase
        s   == BitLen(top) - 1
        lo  == Pow2(s)
        hi  == LimbBase \div lo
        q1  == (top % lo) * hi + p1 \div lo
        q2  == (p1 % lo) * hi + p2 \div lo
        q3  == (p2 % lo) * hi + p3 \div lo
        q4  == (p3 % lo) * hi + p4 \div lo
        dropped == p4 % lo
        up  == s > 0 /\ (2 * dropped > lo \/ (2 * dropped = lo /\ q4 % 2 = 1))
    IN  IF up THEN IncUlp(<<q1, q2, q3, q4>>, x.e + s)
        ELSE [m |-> <<q1, q2, q3, q4>>, e |-> x.e + s]

\* int(x) for a double 0 < x < 2^27: truncation
FloatToInt(x) ==
    IF x.e < 0 THEN 0
    ELSE IF x.e <= 13 THEN Pow2(x.e) + x.m[1] \div Pow2(13 - x.e)
    ELSE Pow2(x.e) + x.m[1] * Pow2(x.e - 13) + x.m[2] \div Pow2(26 - x.e)

\* int((downloaded_bytes / total_bytes) * 100), both > 0
PercentOf(downloaded_bytes, total_bytes) ==
    FloatToInt(FloatMulInt(FloatDiv(downloaded_bytes, total_bytes), 100))

\* ------------------------------------------------------------------- state
VARIABLES
    \* YoutubeDownloader
    downloading, cancel_requested, ydl_instance, current_info, info_cache,
    \* DownloadManagerApp
    download_in_progress, download_button, cancel_button, fetch_button,
    video_info,
    \* Tk: the callbacks queued with root.after, the foreground thread's
    \* position, and whether the window was destroyed
    after_queue, fg, closed,
    \* the download worker threads: position, what download_video returns
    \* ("raises" when an exception leaves it), callbacks received so far, url,
    \* and whether _cleanup_temp_files has run
    wpc, wret, wcb, wurl, cleaned,
    \* the fetch threads: position and url
    fpc, furl,
    \* observation: the events delivered to progress_callback by each running
    \* operation, the operations in flight when a cancel_download() call
    \* returned True, and the result of the cancel_download() call that
    \* returned in the last step (None when the last step was not its return)
    events, accepted, cancel_ret,
    \* progress_hook fed 'downloading' callbacks (SpecHook): the total and the
    \* downloaded bytes of the last callback and the percent of its event
    hook_total, hook_downloaded, hook_percent,
    \* the events that the last callback made progress_hook deliver to
    \* progress_callback, in V7_TP and in v7.1 (<<>> before the first callback)
    hook_event, hook_event71,
    \* v7.1 (Spec71): the completion and error callbacks the download invoked
    outcome_calls,
    \* v7.1: whether get_ffmpeg_path() found ffmpeg; of each worker the format
    \* it was started with, the files of its temporary directory and the name
    \* its collision loop chose; the file of each name of download_dir
    ffmpeg_path, selected_format, temp_dir, final_path, download_dir,
    \* YTDownloader2025 (Spec25): where the foreground thread is, the file the
    \* running download is to produce, the value of the progress bar, whether
    \* the except clause of the last download logged an error, the title of
    \* the last dialog shown, the files of the download directory and the
    \* callbacks made
    pc25, output_file25, progress25, error_logged25, messagebox25, files25, cb25,
    \* V7_TP: video_title of each worker inside download_video, the title its
    \* events carry and it returns: "Unknown" (line 491) or the URL of the
    \* video whose title it is
    video_title,
    \* the queue variant (SpecQueue): self.q, oldest item first; where each
    \* download thread is and the callbacks made to it; the pending
    \* root.after callbacks of check_download_progress; the stack of handlers
    \* and dialogs of the foreground thread, innermost last; the value of the
    \* progress bar; and, as history, the items put on the queue, the items
    \* taken from it and the messages shown, each in order
    q, threadQ, cbQ, timersQ, framesQ, progressQ, putQ, gotQ, shownQ

downloader_vars == <<downloading, cancel_requested, ydl_instance, current_info, info_cache>>
app_vars == <<download_in_progress, download_button, cancel_button, fetch_button, video_info>>
tk_vars == <<after_queue, fg, closed>>
worker_vars == <<wpc, wret, wcb, wurl, cleaned>>
fetch_vars == <<fpc, furl>>
obs_vars == <<events, accepted>>
hook_vars == <<hook_total, hook_downloaded, hook_percent, hook_event, hook_event71>>
files_vars == <<ffmpeg_path, selected_format, temp_dir, final_path, download_dir>>
y25_vars == <<pc25, output_file25, progress25, error_logged25, messagebox25, files25, cb25>>
queue_vars == <<q, threadQ, cbQ, timersQ, framesQ, progressQ, putQ, gotQ, shownQ>>
beyond_vars == <<hook_vars, outcome_calls, files_vars, y25_vars, queue_vars>>
other_vars == <<beyond_vars, video_title>>
vars == <<downloader_vars, app_vars, tk_vars, worker_vars, fetch_vars, obs_vars,
          cancel_ret, other_vars>>

NORMAL == "normal"
DISABLED == "disabled"
Terminal == {"complete", "cancelled", "error"}

\* A raw callback of the library: d['status'], d.get('downloaded_bytes'),
\* d.get('total_bytes'), d.get('total_bytes_estimate'); 0 stands for a key
\* that is absent or None.
Raw(status, downloaded, total, estimate) ==
    [status |-> status, downloaded_bytes |-> downloaded,
     total_bytes |-> total, total_bytes_estimate |-> estimate]

Event(status, percent) == [status |-> status, percent |-> percent]

\* ------------------------------------------- YoutubeDownloader.progress_hook
\* (progress_hookIgnoringCancel: a progress_hook whose first test, lines
\* 268-272, looks at self.downloading only.)
progress_hookIgnoringCancel(d, dl, cr) ==
    IF ~dl
    THEN [do |-> "return"]
    ELSE IF d.status = "downloading"
    THEN [do |-> "emit", event |-> [status |-> "downloading", percent |-> 0]]
    ELSE IF d.status = "finished"
    THEN [do |-> "emit", event |-> [status |-> "converting", percent |-> 95]]
    ELSE IF d.status = "error"
    THEN [do |-> "emit", event |-> [status |-> "error", percent |-> 0]]
    ELSE [do |-> "return"]

\* What one call of progress_hook(d) does, given the values it reads from
\* self.downloading and self.cancel_requested: "raise" DownloadCancelledError,
\* "emit" an event to progress_callback, or "return" silently.
progress_hook(d, dl, cr) ==
    IF ~dl \/ cr
    THEN (IF cr /\ d.status = "downloading"
          THEN [do |-> "raise"]
          ELSE [do |-> "return"])
    ELSE IF d.status = "downloading"
    THEN LET total_bytes == IF d.total_bytes # 0 THEN d.total_bytes
                            ELSE d.total_bytes_estimate
             downloaded_bytes == d.downloaded_bytes
         IN  [do |-> "emit",
              event |-> Event("downloading",
                              IF total_bytes # 0 /\ downloaded_bytes # 0
                              THEN PercentOf(downloaded_bytes, total_bytes)
                              ELSE 0)]
    ELSE IF d.status = "finished"
    THEN [do |-> "emit", event |-> Event("converting", 95)]
    ELSE IF d.status = "error"
    THEN [do |-> "emit", event |-> Event("error", 0)]
    ELSE [do |-> "return"]

\* progress_hook of YTDownloader2025v7.1.py: the same, with a percent of 50
\* for a 'downloading' callback that has downloaded bytes and no total.
progress_hook71(d, dl, cr) ==
    IF ~dl \/ cr
    THEN (IF cr /\ d.status = "downloading"
          THEN [do |-> "raise"]
          ELSE [do |-> "return"])
    ELSE IF d.status = "downloading"
    THEN LET total_bytes == IF d.total_bytes # 0 THEN d.total_bytes
                            ELSE d.total_bytes_estimate
             downloaded_bytes == d.downloaded_bytes
         IN  [do |-> "emit",
              event |-> Event("downloading",
                              IF total_bytes # 0 /\ downloaded_bytes # 0
                              THEN PercentOf(downloaded_bytes, total_bytes)
                              ELSE IF d.downloaded_bytes # 0
                              THEN 50
                              ELSE 0)]
    ELSE IF d.status = "finished"
    THEN [do |-> "emit", event |-> Event("converting", 95)]
    ELSE IF d.status = "error"
    THEN [do |-> "emit", event |-> Event("error", 0)]
    ELSE [do |-> "return"]

\* The guard of YoutubeDownloader.cancel_download: the request is accepted
\* when self.downloading is set. (CancelGuardAlways: a cancel_download
\* without that test.)
CancelGuardAlways(dl) == TRUE
CancelGuard(dl) == dl

\* The progress event of the except clause of download_video that catches an
\* exception of the given kind; None when no clause catches it.
\* (ExceptStatusNoCatchAll: download_video without its except Exception
\* clause.)
ExceptStatusNoCatchAll(kind) ==
    CASE kind = "DownloadCancelledError" -> "cancelled"
      [] kind = "DownloadError" -> "error"
      [] kind = "OSError" -> "error"
      [] OTHER -> None
ExceptStatus(kind) ==
    CASE kind = "DownloadCancelledError" -> "cancelled"
      [] kind = "DownloadError" -> "error"
      [] kind = "OSError" -> "error"
      [] OTHER -> "error"

\* ------------------------------------------ DownloadManagerApp.update_progress
\* The progress callback, run by the thread that emits the event: a terminal
\* status resets download_in_progress and the three buttons.
update_progress(ev) ==
    IF ev.status \in Terminal
    THEN /\ download_in_progress' = FALSE
         /\ cancel_button' = DISABLED
         /\ download_button' = NORMAL
         /\ fetch_button' = NORMAL
         /\ UNCHANGED video_info
    ELSE UNCHANGED app_vars

\* self.progress_callback(ev) called inside operation op
Deliver(op, ev) ==
    /\ events' = [events EXCEPT ![op] = Append(@, ev)]
    /\ update_progress(ev)

\* ----------------------------------------------------------------- helpers
Idle == [pc |-> "idle", ctx |-> "none"]
Fetches == 1..MaxFetches

\* the URL entry's text when a handler reads it: empty, not a YouTube URL, or
\* a YouTube URL
ProtocolEntries == {"", "bad", "A"}
is_valid_youtube_url(url) == url \notin {"", "bad"}

\* the positions of a worker inside YoutubeDownloader.download_video: all of
\* them, and those after line 489 and before the event of its return paths
InDownloadVideo == {"l489", "l490", "l585", "download", "l629", "finally1", "finally2",
                    "finally3"}
InFlightPcs == {"l490", "l585", "download"}
Running(op) == wpc[op] \in InDownloadVideo
HasTerminal(op) == \E i \in 1..Len(events[op]) : events[op][i].status \in Terminal
InFlight(op) == wpc[op] \in InFlightPcs /\ ~HasTerminal(op)
NoOpActive == \A op \in Ops : wpc[op] = "none"

Goto(op, pc) == wpc' = [wpc EXCEPT ![op] = pc]

RECURSIVE SumTo(_, _)
SumTo(f, n) == IF n = 0 THEN 0 ELSE f[n] + SumTo(f, n - 1)
CallbacksMade == SumTo(wcb, MaxOps)

\* the state after DownloadManagerApp.__init__ and YoutubeDownloader.__init__
InitApp ==
    /\ downloading = FALSE
    /\ cancel_requested = FALSE
    /\ ydl_instance = NoYdl
    /\ current_info = None
    /\ info_cache = {}
    /\ download_in_progress = FALSE
    /\ download_button = NORMAL
    /\ cancel_button = DISABLED
    /\ fetch_button = NORMAL
    /\ video_info = None
    /\ after_queue = <<>>
    /\ fg = Idle
    /\ closed = FALSE
    /\ wpc = [op \in Ops |-> "none"]
    /\ wret = [op \in Ops |-> None]
    /\ wcb = [op \in Ops |-> 0]
    /\ wurl = [op \in Ops |-> None]
    /\ cleaned = [op \in Ops |-> FALSE]
    /\ fpc = [i \in Fetches |-> "none"]
    /\ furl = [i \in Fetches |-> None]
    /\ events = [op \in Ops |-> <<>>]
    /\ cancel_ret = None
    /\ accepted = {}
    /\ outcome_calls = <<>>
    /\ selected_format = [op \in Ops |-> ""]
    /\ temp_dir = [op \in Ops |-> {}]
    /\ final_path = [op \in Ops |-> 0]
    /\ download_dir = [k \in 0..(MaxFiles71 - 1) |-> {}]
    /\ pc25 = "idle"
    /\ output_file25 = <<>>
    /\ progress25 = 0
    /\ error_logged25 = FALSE
    /\ messagebox25 = None
    /\ files25 = {}
    /\ cb25 = 0
    /\ video_title = [op \in Ops |-> "Unknown"]
    /\ q = <<>>
    /\ threadQ = [op \in 1..MaxDownloadsQ |-> "none"]
    /\ cbQ = [op \in 1..MaxDownloadsQ |-> 0]
    /\ timersQ = 0
    /\ framesQ = <<>>
    /\ progressQ = 0
    /\ putQ = <<>>
    /\ gotQ = <<>>
    /\ shownQ = <<>>

Init ==
    /\ InitApp
    /\ ffmpeg_path = TRUE
    /\ hook_total = 0
    /\ hook_downloaded = 0
    /\ hook_percent = 0
    /\ hook_event = <<>>
    /\ hook_event71 = <<>>

\* ------------------------------------- DownloadManagerApp, foreground thread
\* a step that is not the return of a cancel_download() call
NoReturn == cancel_ret' = None

\* fetch_video_info, given the entry's text; the fetch thread it starts takes
\* the first free slot.
fetch_video_info(url) ==
    IF url = "" \/ ~is_valid_youtube_url(url)
    THEN UNCHANGED <<app_vars, fetch_vars>>
    ELSE /\ \E i \in Fetches : fpc[i] = "none"
         /\ LET i == CHOOSE j \in Fetches :
                       fpc[j] = "none" /\ \A k \in 1..(j - 1) : fpc[k] # "none"
            IN  /\ fpc' = [fpc EXCEPT ![i] = "run"]
                /\ furl' = [furl EXCEPT ![i] = url]
         /\ fetch_button' = DISABLED
         /\ download_button' = DISABLED
         /\ UNCHANGED <<download_in_progress, cancel_button, video_info>>

\* the Search button
ClickSearch(url) ==
    /\ fg = Idle /\ ~closed
    /\ fetch_button = NORMAL
    /\ fetch_video_info(url)
    /\ NoReturn
    /\ UNCHANGED <<downloader_vars, tk_vars, worker_vars, events, accepted, other_vars>>

\* <Return> in the URL entry: bound to fetch_video_info whatever the state of
\* the buttons
PressReturn(url) ==
    /\ fg = Idle /\ ~closed
    /\ fetch_video_info(url)
    /\ NoReturn
    /\ UNCHANGED <<downloader_vars, tk_vars, worker_vars, events, accepted, other_vars>>

\* The tests of DownloadManagerApp.download_video that end it with
\* messagebox.showerror (lines 1416-1437): the URL is empty or not a YouTube
\* URL, validate_directory rejects the directory, ffmpeg is not installed.
\* (RequestRejectedNoDirCheck: the tests without that of the directory.)
RequestRejectedNoDirCheck(url, dir_ok, ffmpeg) ==
    url = "" \/ ~is_valid_youtube_url(url) \/ ~ffmpeg
RequestRejected(url, dir_ok, ffmpeg) ==
    url = "" \/ ~is_valid_youtube_url(url) \/ ~dir_ok \/ ~ffmpeg

\* the Download button: DownloadManagerApp.download_video; a rejected request
\* leaves its error dialog open; the worker thread of an accepted one takes
\* the first free slot of the given ones
ClickDownload(url, dir_ok, ffmpeg, slots) ==
    /\ fg = Idle /\ ~closed
    /\ download_button = NORMAL
    /\ IF RequestRejected(url, dir_ok, ffmpeg)
       THEN /\ fg' = [pc |-> "showerror", ctx |-> "download"]
            /\ UNCHANGED <<app_vars, fetch_vars, worker_vars>>
       ELSE IF video_info = None
       THEN fetch_video_info(url) /\ UNCHANGED <<worker_vars, fg>>
       ELSE /\ \E op \in slots : wpc[op] = "none"
            /\ UNCHANGED fg
            /\ LET op == CHOOSE o \in slots :
                             wpc[o] = "none" /\ \A k \in 1..(o - 1) : wpc[k] # "none"
               IN  /\ wpc' = [wpc EXCEPT ![op] = "l489"]
                   /\ wurl' = [wurl EXCEPT ![op] = url]
            /\ download_button' = DISABLED
            /\ fetch_button' = DISABLED
            /\ cancel_button' = NORMAL
            /\ download_in_progress' = TRUE
            /\ UNCHANGED <<video_info, fetch_vars, wret, wcb, cleaned>>
    /\ NoReturn
    /\ UNCHANGED <<downloader_vars, after_queue, closed, obs_vars, other_vars>>

\* the error dialog of a rejected request is dismissed
DismissError ==
    /\ fg = [pc |-> "showerror", ctx |-> "download"] /\ ~closed
    /\ fg' = Idle
    /\ NoReturn
    /\ UNCHANGED <<downloader_vars, app_vars, after_queue, closed, worker_vars,
                   fetch_vars, obs_vars, other_vars>>

\* the Cancel button: DownloadManagerApp.cancel_download up to its dialog
ClickCancel ==
    /\ fg = Idle /\ ~closed
    /\ cancel_button = NORMAL
    /\ fg' = IF download_in_progress THEN [pc |-> "askyesno", ctx |-> "cancel"] ELSE Idle
    /\ NoReturn
    /\ UNCHANGED <<downloader_vars, app_vars, after_queue, closed, worker_vars,
                   fetch_vars, obs_vars, other_vars>>

\* the "Cancel Download" dialog returns; on yes the handler goes on to call
\* downloader.cancel_download()
AnswerCancel(yes) ==
    /\ fg = [pc |-> "askyesno", ctx |-> "cancel"] /\ ~closed
    /\ fg' = IF yes THEN [pc |-> "cancel_read", ctx |-> "cancel"] ELSE Idle
    /\ NoReturn
    /\ UNCHANGED <<downloader_vars, app_vars, after_queue, closed, worker_vars,
                   fetch_vars, obs_vars, other_vars>>

\* where the foreground thread is when its cancel_download() call has
\* returned: cancel_download of the app returns to the main loop, on_closing
\* goes on to _cleanup_resources (line 1602)
AfterCancel == IF fg.ctx = "closing" THEN [pc |-> "cleanup", ctx |-> "closing"] ELSE Idle

\* YoutubeDownloader.cancel_download, line 322: the read of self.downloading;
\* when it is not set the call returns False and cancel_download of the app
\* disables the Cancel button (line 1525)
CancelRead ==
    /\ fg.pc = "cancel_read" /\ ~closed
    /\ IF CancelGuard(downloading)
       THEN /\ fg' = [fg EXCEPT !.pc = "cancel_write"]
            /\ cancel_ret' = None
            /\ UNCHANGED cancel_button
       ELSE /\ fg' = AfterCancel
            /\ cancel_ret' = "False"
            /\ cancel_button' = IF fg.ctx = "closing" THEN cancel_button ELSE DISABLED
    /\ UNCHANGED <<downloader_vars, download_in_progress, download_button, fetch_button,
                   video_info, after_queue, closed, worker_vars, fetch_vars, obs_vars,
                   other_vars>>

\* YoutubeDownloader.cancel_download, lines 323-330: the flag is set, the
\* interrupt_download() attempt is swallowed by its bare except, True returned
CancelWrite ==
    /\ fg.pc = "cancel_write" /\ ~closed
    /\ cancel_requested' = TRUE
    /\ accepted' = accepted \cup {op \in Ops : InFlight(op)}
    /\ cancel_ret' = "True"
    /\ fg' = AfterCancel
    /\ UNCHANGED <<downloading, ydl_instance, current_info, info_cache, app_vars,
                   after_queue, closed, worker_vars, fetch_vars, events, other_vars>>

\* WM_DELETE_WINDOW: DownloadManagerApp.on_closing up to its dialog when a
\* download is in progress
OnClosing ==
    /\ fg = Idle /\ ~closed
    /\ download_in_progress
    /\ fg' = [pc |-> "askyesno", ctx |-> "closing"]
    /\ NoReturn
    /\ UNCHANGED <<downloader_vars, app_vars, after_queue, closed, worker_vars,
                   fetch_vars, obs_vars, other_vars>>

\* on_closing leaves (lines 1601-1606): _cleanup_resources with its call of
\* downloader.cancel_download() (line 1615), root.destroy() and sys.exit(0).
\* The process ends, its daemon threads with it: of its state the model keeps
\* the downloader's fields as the calls left them. cancel_ret is the result
\* of the last of the calls.
Quit ==
    /\ closed' = TRUE
    /\ fg' = [pc |-> "exited", ctx |-> "none"]
    /\ cancel_requested' = IF CancelGuard(downloading) THEN TRUE ELSE cancel_requested
    /\ cancel_ret' = IF CancelGuard(downloading) THEN "True" ELSE "False"
    /\ current_info' = None
    /\ info_cache' = {}
    /\ download_in_progress' = FALSE
    /\ download_button' = NORMAL
    /\ cancel_button' = DISABLED
    /\ fetch_button' = NORMAL
    /\ video_info' = None
    /\ after_queue' = <<>>
    /\ wpc' = [op \in Ops |-> "none"]
    /\ wret' = [op \in Ops |-> None]
    /\ wcb' = [op \in Ops |-> 0]
    /\ wurl' = [op \in Ops |-> None]
    /\ cleaned' = [op \in Ops |-> FALSE]
    /\ fpc' = [i \in Fetches |-> "none"]
    /\ furl' = [i \in Fetches |-> None]
    /\ events' = [op \in Ops |-> <<>>]
    /\ accepted' = {}
    /\ video_title' = [op \in Ops |-> "Unknown"]
    /\ UNCHANGED <<downloading, ydl_instance, beyond_vars>>

\* WM_DELETE_WINDOW with no download in progress
CloseIdle ==
    /\ fg = Idle /\ ~closed
    /\ ~download_in_progress
    /\ Quit

\* (on_closing_confirmedAlways: an on_closing that does not look at the
\* answer of its dialog.)
on_closing_confirmedAlways(answer) == TRUE

\* lines 1596-1599: on_closing goes on when askyesno returned True
on_closing_confirmed(answer) == answer

\* the "Quit" dialog returns: on yes on_closing goes on to call
\* downloader.cancel_download() (line 1597), on no it returns
AnswerQuit(yes) ==
    /\ fg = [pc |-> "askyesno", ctx |-> "closing"] /\ ~closed
    /\ fg' = IF on_closing_confirmed(yes) THEN [pc |-> "cancel_read", ctx |-> "closing"]
             ELSE Idle
    /\ NoReturn
    /\ UNCHANGED <<downloader_vars, app_vars, after_queue, closed, worker_vars,
                   fetch_vars, obs_vars, other_vars>>

\* on_closing after its confirmed cancel_download() call has returned
CleanupAndDestroy ==
    /\ fg = [pc |-> "cleanup", ctx |-> "closing"] /\ ~closed
    /\ Quit

\* Tk runs the callbacks a thread queued with root.after(0, ...) in one pass
\* of its timer handlers: those of a fetch thread's finally clause (lines
\* 1153-1154) or those of a worker thread's finally clause (lines 1502-1504).
RunAfter ==
    /\ fg = Idle /\ ~closed
    /\ after_queue # <<>>
    /\ after_queue' = Tail(after_queue)
    /\ LET cb == Head(after_queue)
       IN  /\ download_button' = NORMAL
           /\ fetch_button' = NORMAL
           /\ cancel_button' = IF cb = "download_thread" THEN DISABLED ELSE cancel_button
    /\ NoReturn
    /\ UNCHANGED <<downloader_vars, download_in_progress, video_info, fg, closed,
                   worker_vars, fetch_vars, events, accepted, other_vars>>

Foreground(entries, slots) ==
    \/ \E url \in entries : ClickSearch(url)
    \/ \E url \in entries : PressReturn(url)
    \/ \E url \in entries, dir_ok \in BOOLEAN, ffmpeg \in BOOLEAN :
           ClickDownload(url, dir_ok, ffmpeg, slots)
    \/ DismissError
    \/ ClickCancel
    \/ \E yes \in BOOLEAN : AnswerCancel(yes)
    \/ CancelRead
    \/ CancelWrite
    \/ OnClosing
    \/ CloseIdle
    \/ \E yes \in BOOLEAN : AnswerQuit(yes)
    \/ CleanupAndDestroy
    \/ RunAfter

\* ------------------------------------------------------------ fetch thread
\* fetch_thread of fetch_video_info: get_available_formats(url), the store to
\* self.video_info and the root.after calls of its finally clause. The
\* queued callbacks that only redraw labels and lists are left out.
\*   hit    the url is in info_cache: the cached info is returned
\*   ok     extract_info returns the info: current_info and the cache are set
\*   none   extract_info returns None: current_info = None, ([], None)
\*   raise  extract_info raises: ([], None)
FetchThread(i, outcome) ==
    /\ fpc[i] = "run" /\ ~closed
    /\ Len(after_queue) < MaxQueue
    /\ fpc' = [fpc EXCEPT ![i] = "none"]
    /\ furl' = [furl EXCEPT ![i] = None]
    /\ IF furl[i] \in info_cache
       THEN /\ outcome = "hit"
            /\ video_info' = furl[i]
            /\ UNCHANGED <<current_info, info_cache>>
       ELSE /\ outcome # "hit"
            /\ current_info' = CASE outcome = "ok" -> furl[i]
                                 [] outcome = "none" -> None
                                 [] OTHER -> current_info
            /\ info_cache' = IF outcome = "ok" THEN info_cache \cup {furl[i]}
                             ELSE info_cache
            /\ video_info' = IF outcome = "ok" THEN furl[i] ELSE None
    /\ after_queue' = Append(after_queue, "fetch_thread")
    /\ NoReturn
    /\ UNCHANGED <<downloading, cancel_requested, ydl_instance, download_in_progress,
                   download_button, cancel_button, fetch_button, fg, closed,
                   worker_vars, obs_vars, other_vars>>

\* --------------------------------- worker: YoutubeDownloader.download_video
\* An exception raised inside the try block: the except clause that catches
\* it delivers its event and download_video returns (title, False) (lines
\* 617-677); the cancelled path has its cleanup still to run.
Raise(op, kind) ==
    LET status == ExceptStatus(kind)
    IN  /\ wret' = [wret EXCEPT ![op] = IF status = None THEN "raises" ELSE "False"]
        /\ Goto(op, IF status = "cancelled" THEN "l629" ELSE "finally1")
        /\ IF status = None
           THEN UNCHANGED <<app_vars, events>>
           ELSE Deliver(op, Event(status, 0))

\* line 489
W_SetDownloading(op) ==
    /\ wpc[op] = "l489" /\ ~closed
    /\ downloading' = TRUE
    /\ Goto(op, "l490")
    /\ NoReturn
    /\ UNCHANGED <<cancel_requested, ydl_instance, current_info, info_cache, app_vars,
                   tk_vars, wret, wcb, wurl, cleaned, fetch_vars, obs_vars, other_vars>>

\* line 490
W_ResetCancel(op) ==
    /\ wpc[op] = "l490" /\ ~closed
    /\ cancel_requested' = FALSE
    /\ Goto(op, "l585")
    /\ NoReturn
    /\ UNCHANGED <<downloading, ydl_instance, current_info, info_cache, app_vars,
                   tk_vars, wret, wcb, wurl, cleaned, fetch_vars, obs_vars, other_vars>>

\* lines 585-596: self.ydl_instance = ydl, then
\* info = self.current_info or ydl.extract_info(url): the library call
\* returns the info, raises DownloadError, or returns None (then info.get
\* raises AttributeError); then the check of cancel_requested before the
\* download starts
W_ExtractInfo(op, outcome) ==
    /\ wpc[op] = "l585" /\ ~closed
    /\ ydl_instance' = op
    /\ IF current_info # None
       THEN outcome = "ok"
       ELSE outcome \in {"ok", "DownloadError", "AttributeError"}
    /\ IF outcome # "ok"
       THEN Raise(op, outcome)
       ELSE IF cancel_requested
       THEN Raise(op, "DownloadCancelledError")
       ELSE Goto(op, "download") /\ UNCHANGED <<wret, app_vars, events>>
    /\ video_title' = IF outcome # "ok" THEN video_title
                      ELSE [video_title EXCEPT ![op] =
                                IF current_info # None THEN current_info ELSE wurl[op]]
    /\ NoReturn
    /\ UNCHANGED <<downloading, cancel_requested, current_info, info_cache, tk_vars,
                   wcb, wurl, cleaned, fetch_vars, accepted, beyond_vars>>

\* line 599, inside ydl.download: the library calls progress_hook(d); an
\* exception of the hook leaves ydl.download
W_Callback(op, d, callbacks) ==
    /\ wpc[op] = "download" /\ ~closed
    /\ CallbacksMade < callbacks
    /\ wcb' = [wcb EXCEPT ![op] = @ + 1]
    /\ LET r == progress_hook(d, downloading, cancel_requested)
       IN  CASE r.do = "raise" -> Raise(op, "DownloadCancelledError")
             [] r.do = "emit" -> Deliver(op, r.event) /\ UNCHANGED <<wpc, wret>>
             [] OTHER -> UNCHANGED <<app_vars, events, wpc, wret>>
    /\ NoReturn
    /\ UNCHANGED <<downloader_vars, tk_vars, wurl, cleaned, fetch_vars, accepted,
                   other_vars>>

\* lines 599-615: ydl.download returns, _cleanup_temp_files runs, the
\* 'complete' event is delivered and download_video returns (title, True);
\* or ydl.download raises DownloadError, an OSError or another exception
W_DownloadReturns(op, outcome) ==
    /\ wpc[op] = "download" /\ ~closed
    /\ IF outcome = "ok"
       THEN /\ cleaned' = [cleaned EXCEPT ![op] = TRUE]
            /\ Deliver(op, Event("complete", 100))
            /\ wret' = [wret EXCEPT ![op] = "True"]
            /\ Goto(op, "finally1")
       ELSE Raise(op, outcome) /\ UNCHANGED cleaned
    /\ NoReturn
    /\ UNCHANGED <<downloader_vars, tk_vars, wcb, wurl, fetch_vars, accepted, other_vars>>

\* line 629: _cleanup_temp_files on the cancelled path, after its event
W_CleanupCancelled(op) ==
    /\ wpc[op] = "l629" /\ ~closed
    /\ cleaned' = [cleaned EXCEPT ![op] = TRUE]
    /\ Goto(op, "finally1")
    /\ NoReturn
    /\ UNCHANGED <<downloader_vars, app_vars, tk_vars, wret, wcb, wurl, fetch_vars,
                   obs_vars, other_vars>>

\* line 681 and line 682: the first two stores of the finally clause, one at
\* a time. What the operation delivered is observed until the first store.
W_Finally(op) ==
    /\ wpc[op] \in {"finally1", "finally2"} /\ ~closed
    /\ downloading' = IF wpc[op] = "finally1" THEN FALSE ELSE downloading
    /\ cancel_requested' = IF wpc[op] = "finally2" THEN FALSE ELSE cancel_requested
    /\ Goto(op, IF wpc[op] = "finally1" THEN "finally2" ELSE "finally3")
    /\ IF wpc[op] = "finally1"
       THEN /\ wret' = [wret EXCEPT ![op] = None]
            /\ wcb' = [wcb EXCEPT ![op] = 0]
            /\ cleaned' = [cleaned EXCEPT ![op] = FALSE]
            /\ events' = [events EXCEPT ![op] = <<>>]
            /\ accepted' = accepted \ {op}
            /\ video_title' = [video_title EXCEPT ![op] = "Unknown"]
       ELSE UNCHANGED <<wret, wcb, cleaned, events, accepted, video_title>>
    /\ NoReturn
    /\ UNCHANGED <<ydl_instance, current_info, info_cache, app_vars, tk_vars, wurl,
                   fetch_vars, beyond_vars>>

\* line 683, the last store of the finally clause, and the return to
\* download_thread_func, whose own finally clause (lines 1498-1504) ends the
\* thread. The callbacks queued before it only redraw the status label and
\* show a message box.
W_ThreadExit(op) ==
    /\ wpc[op] = "finally3" /\ ~closed
    /\ Len(after_queue) < MaxQueue
    /\ ydl_instance' = NoYdl
    /\ download_in_progress' = FALSE
    /\ after_queue' = Append(after_queue, "download_thread")
    /\ Goto(op, "none")
    /\ wurl' = [wurl EXCEPT ![op] = None]
    /\ NoReturn
    /\ UNCHANGED <<downloading, cancel_requested, current_info, info_cache,
                   download_button, cancel_button, fetch_button, video_info, fg,
                   closed, wret, wcb, cleaned, fetch_vars, obs_vars, other_vars>>

\* the raw callbacks the library makes in the protocol's specification
ProtocolCallbacks ==
    {Raw("downloading", MaxTotal, MaxTotal, 0), Raw("finished", 0, 0, 0),
     Raw("error", 0, 0, 0)}

Worker(op, callbacks) ==
    \/ W_SetDownloading(op)
    \/ W_ResetCancel(op)
    \/ \E outcome \in {"ok", "DownloadError", "AttributeError"} : W_ExtractInfo(op, outcome)
    \/ \E d \in ProtocolCallbacks : W_Callback(op, d, callbacks)
    \/ \E outcome \in {"ok", "DownloadError", "OSError", "Exception"} :
           W_DownloadReturns(op, outcome)
    \/ W_CleanupCancelled(op)
    \/ W_Finally(op)
    \/ W_ThreadExit(op)

\* the application with the given worker slots and bound on the callbacks
App(slots, callbacks) ==
    \/ Foreground(ProtocolEntries, slots)
    \/ \E i \in Fetches, outcome \in {"hit", "ok", "none", "raise"} : FetchThread(i, outcome)
    \/ \E op \in slots : Worker(op, callbacks)

Next == App(Ops, MaxCallbacks)

Spec == Init /\ [][Next]_vars

\* downloads one after another
NextSeq == App(SeqOps, MaxSeqCallbacks)

SpecSeq == Init /\ [][NextSeq]_vars

\* downloads one after another, with two videos to fetch and to download
TitleEntries == {"A", "B"}

NextTitle ==
    \/ Foreground(TitleEntries, SeqOps)
    \/ \E i \in Fetches, outcome \in {"hit", "ok", "none", "raise"} : FetchThread(i, outcome)
    \/ \E op \in SeqOps : Worker(op, MaxCallbacks)

SpecTitle == Init /\ [][NextTitle]_vars

\* the same, where every worker thread that can run eventually runs
FairSpec == SpecSeq /\ \A op \in SeqOps : WF_vars(Worker(op, MaxSeqCallbacks))

\* --------------------------------------- progress_hook on its own (SpecHook)
\* The callbacks of one download whose total size is hook_total bytes (0 when
\* the library does not know it), reported as total_bytes or as
\* total_bytes_estimate. No cancel is requested.
InitHook ==
    /\ InitApp
    /\ ffmpeg_path = TRUE
    /\ hook_total \in 0..MaxTotal
    /\ hook_downloaded = 0
    /\ hook_percent = 0
    /\ hook_event = <<>>
    /\ hook_event71 = <<>>

\* progress_hook({'status': 'downloading', 'downloaded_bytes': n, ...})
HookDownloading(n, as_estimate) ==
    LET d == IF as_estimate THEN Raw("downloading", n, 0, hook_total)
             ELSE Raw("downloading", n, hook_total, 0)
        r == progress_hook(d, TRUE, FALSE)
        r71 == progress_hook71(d, TRUE, FALSE)
    IN  /\ r.do = "emit"
        /\ hook_downloaded' = n
        /\ hook_percent' = r.event.percent
        /\ hook_event' = <<r.event>>
        /\ hook_event71' = IF r71.do = "emit" THEN <<r71.event>> ELSE <<>>
        /\ UNCHANGED <<downloader_vars, app_vars, tk_vars, worker_vars, fetch_vars,
                       obs_vars, cancel_ret, hook_total, outcome_calls, files_vars, y25_vars,
                       video_title, queue_vars>>

NextHook == \E n \in 0..MaxDownloaded, as_estimate \in BOOLEAN : HookDownloading(n, as_estimate)

SpecHook == InitHook /\ [][NextHook]_vars

\* ------------------------------------------- YTDownloader2025v7.1 (Spec71)
\* Spec71 runs one download at a time, in the worker slot 1; Spec71Par has
\* the Return key of the URL entry and every worker slot.
Op71 == 1
InDownloadVideo71 == {"v71_try", "v71_download", "v71_move"}

\* The names the collision loop of download_video tries in download_dir:
\* 0 is final_filename, k > 0 is the name with counter k.
Names71 == 0..(MaxFiles71 - 1)

\* a file: what was downloaded into it, and whether it is partially written
File71(content, partial) == [content |-> content, partial |-> partial]

\* what the next file the library creates holds
NewContent71 ==
    LET used == {f.content : f \in UNION ({download_dir[k] : k \in Names71}
                                           \cup {temp_dir[op] : op \in Ops})}
    IN  CHOOSE c \in 1..MaxFiles71 : c \notin used /\ \A b \in 1..(c - 1) : b \in used

\* lines 539-540: the outtmpl of the options the library is given, the
\* temporary directory. (outtmplDownloadDir: the outtmpl of line 494.)
outtmplDownloadDir(temp, dest) == dest
outtmpl71(temp, dest) == temp

\* the library has written some bytes of the download of op: the temporary
\* directory of op, and download_dir, after that
TempAfterWrite71(op) ==
    IF outtmpl71("temp_dir", "download_dir") = "temp_dir"
    THEN [temp_dir EXCEPT ![op] =
              IF @ = {} THEN {File71(NewContent71, TRUE)}
              ELSE {File71(f.content, TRUE) : f \in @}]
    ELSE temp_dir
DirAfterWrite71(op) ==
    IF outtmpl71("temp_dir", "download_dir") = "temp_dir"
    THEN download_dir
    ELSE [download_dir EXCEPT ![0] = {File71(NewContent71, TRUE)}]

\* lines 576-585: counter = 1; while os.path.exists(final_path): the name
\* with the counter is tried and the counter incremented
RECURSIVE ExistsLoop71(_, _)
ExistsLoop71(dir, k) == IF dir[k] # {} THEN ExistsLoop71(dir, k + 1) ELSE k

\* DownloadManagerApp._reset_ui_state
reset_ui_state71 ==
    /\ download_button' = NORMAL
    /\ fetch_button' = NORMAL
    /\ cancel_button' = DISABLED
    /\ download_in_progress' = FALSE
    /\ UNCHANGED video_info

\* download_complete_callback or download_error_callback is invoked:
\* _on_download_complete and _on_download_error both end in _reset_ui_state
OutcomeCallback71(name) ==
    /\ outcome_calls' = Append(outcome_calls, name)
    /\ reset_ui_state71

\* the except clause of YoutubeDownloader.download_video: the temporary
\* directory, if created, has been removed on the way out of its with
\* block, the error callback is invoked and (str(e), False) returned
Raise71(op) ==
    /\ OutcomeCallback71("error")
    /\ wret' = [wret EXCEPT ![op] = "False"]
    /\ wpc' = [wpc EXCEPT ![op] = "v71_return"]
    /\ temp_dir' = [temp_dir EXCEPT ![op] = {}]

\* YoutubeDownloader.update_progress, the progress hook of v7.1: a
\* 'downloading' callback is passed on with its percent, a float; percent is
\* unbound when the total is unknown
update_progress71(d) ==
    IF d.status = "downloading"
    THEN LET total_bytes == IF d.total_bytes # 0 THEN d.total_bytes
                            ELSE d.total_bytes_estimate
         IN  IF total_bytes # 0
             THEN [do |-> "emit",
                   event |-> Event("downloading",
                                   FloatMulInt(FloatDiv(d.downloaded_bytes, total_bytes), 100))]
             ELSE [do |-> "raise"]
    ELSE [do |-> "return"]

\* DownloadManagerApp.fetch_video_info with its fetch thread and the
\* callbacks the thread queues, run to their end
fetch_video_info71(url, found) ==
    /\ IF url = "" \/ ~is_valid_youtube_url(url)
       THEN UNCHANGED app_vars
       ELSE /\ video_info' = IF found THEN url ELSE None
            /\ fetch_button' = NORMAL
            /\ download_button' = NORMAL
            /\ UNCHANGED <<download_in_progress, cancel_button>>
    /\ NoReturn
    /\ UNCHANGED <<downloader_vars, tk_vars, worker_vars, fetch_vars, obs_vars, other_vars>>

\* the Search button
Fetch71(url, found) ==
    /\ fg = Idle /\ fetch_button = NORMAL
    /\ fetch_video_info71(url, found)

\* the Return key in the URL entry (line 845)
PressReturn71(url, found) ==
    /\ fg = Idle
    /\ fetch_video_info71(url, found)

\* the Download button: DownloadManagerApp.download_video, with the format
\* selected in the list ("" when none is) and whether validate_directory
\* accepts the directory; the thread takes the first free worker slot
ClickDownload71(slots, format, dir_ok) ==
    /\ fg = Idle /\ download_button = NORMAL
    /\ \E op \in slots :
        /\ wpc[op] = "none" /\ \A o \in slots : o < op => wpc[o] # "none"
        /\ IF video_info = None \/ format = "" \/ ~dir_ok
           THEN UNCHANGED <<app_vars, worker_vars, selected_format>>
           ELSE /\ Cardinality({k \in Names71 : download_dir[k] # {}})
                     + Cardinality({o \in Ops : wpc[o] # "none"}) < MaxFiles71
                /\ download_button' = DISABLED
                /\ fetch_button' = DISABLED
                /\ cancel_button' = NORMAL
                /\ download_in_progress' = TRUE
                /\ wpc' = [wpc EXCEPT ![op] = "v71_try"]
                /\ wurl' = [wurl EXCEPT ![op] = video_info]
                /\ selected_format' = [selected_format EXCEPT ![op] = format]
                /\ UNCHANGED <<video_info, wret, wcb, cleaned>>
    /\ NoReturn
    /\ UNCHANGED <<downloader_vars, tk_vars, fetch_vars, obs_vars, hook_vars, y25_vars, video_title, queue_vars,
                   outcome_calls, ffmpeg_path, temp_dir, final_path, download_dir>>

\* download_video, lines 487-548: the callbacks are stored, the options are
\* built (ValueError when mp3 is selected and self.ffmpeg_path is not set),
\* the temporary directory is created, ydl_instance is stored and
\* ydl.extract_info returns or raises. self.downloading is not written.
W71_ExtractInfo(op, outcome) ==
    /\ wpc[op] = "v71_try"
    /\ IF selected_format[op] = "mp3" /\ ~ffmpeg_path
       THEN Raise71(op) /\ UNCHANGED ydl_instance
       ELSE IF outcome = "ok"
       THEN /\ ydl_instance' = op
            /\ wpc' = [wpc EXCEPT ![op] = "v71_download"]
            /\ UNCHANGED <<app_vars, wret, outcome_calls, temp_dir>>
       ELSE /\ ydl_instance' = op
            /\ Raise71(op)
    /\ NoReturn
    /\ UNCHANGED <<downloading, cancel_requested, current_info, info_cache, tk_vars,
                   wcb, wurl, cleaned, fetch_vars, obs_vars, hook_vars, y25_vars, video_title, queue_vars, ffmpeg_path,
                   selected_format, final_path, download_dir>>

\* line 554, inside ydl.download: the library has written part of the file
\* and calls update_progress(d); the UnboundLocalError of the hook leaves
\* ydl.download
W71_Callback(op, d, callbacks) ==
    /\ wpc[op] = "v71_download"
    /\ wcb[op] < callbacks
    /\ wcb' = [wcb EXCEPT ![op] = @ + 1]
    /\ LET r == update_progress71(d)
       IN  CASE r.do = "raise" ->
                  /\ Raise71(op)
                  /\ download_dir' = DirAfterWrite71(op)
                  /\ UNCHANGED events
             [] r.do = "emit" ->
                  /\ events' = [events EXCEPT ![op] = Append(@, r.event)]
                  /\ temp_dir' = TempAfterWrite71(op)
                  /\ download_dir' = DirAfterWrite71(op)
                  /\ UNCHANGED <<app_vars, wpc, wret, outcome_calls>>
             [] OTHER -> UNCHANGED <<app_vars, events, wpc, wret, outcome_calls,
                                     temp_dir, download_dir>>
    /\ NoReturn
    /\ UNCHANGED <<downloader_vars, tk_vars, wurl, cleaned, fetch_vars, accepted,
                   hook_vars, y25_vars, video_title, queue_vars, ffmpeg_path, selected_format, final_path>>

\* lines 554-585: ydl.download returns or raises; the temporary directory is
\* listed (os.listdir may raise); with a file in it, final_path is chosen by
\* the collision loop; with none, (video_title, queue_vars, True) is returned
W71_DownloadReturns(op, outcome, listed) ==
    /\ wpc[op] = "v71_download"
    /\ IF outcome = "ok"
       THEN IF listed
            THEN /\ temp_dir' = [temp_dir EXCEPT ![op] =
                        IF @ = {} THEN {File71(NewContent71, FALSE)}
                        ELSE {File71(f.content, FALSE) : f \in @}]
                 /\ final_path' = [final_path EXCEPT ![op] = ExistsLoop71(download_dir, 0)]
                 /\ wpc' = [wpc EXCEPT ![op] = "v71_move"]
                 /\ UNCHANGED <<app_vars, wret, outcome_calls>>
            ELSE /\ wret' = [wret EXCEPT ![op] = "True"]
                 /\ wpc' = [wpc EXCEPT ![op] = "v71_return"]
                 /\ temp_dir' = [temp_dir EXCEPT ![op] = {}]
                 /\ UNCHANGED <<app_vars, outcome_calls, final_path>>
       ELSE Raise71(op) /\ UNCHANGED final_path
    /\ NoReturn
    /\ UNCHANGED <<downloader_vars, tk_vars, wcb, wurl, cleaned, fetch_vars, obs_vars,
                   hook_vars, y25_vars, video_title, queue_vars, ffmpeg_path, selected_format, download_dir>>

\* lines 588-602: shutil.move(source_path, final_path) moves the file or
\* raises; the rest of the temporary directory is removed, the completion
\* callback invoked and (video_title, queue_vars, True) returned
W71_Move(op, moved) ==
    /\ wpc[op] = "v71_move"
    /\ IF moved
       THEN /\ download_dir' = [download_dir EXCEPT ![final_path[op]] = temp_dir[op]]
            /\ temp_dir' = [temp_dir EXCEPT ![op] = {}]
            /\ OutcomeCallback71("complete")
            /\ wret' = [wret EXCEPT ![op] = "True"]
            /\ wpc' = [wpc EXCEPT ![op] = "v71_return"]
       ELSE Raise71(op) /\ UNCHANGED download_dir
    /\ NoReturn
    /\ UNCHANGED <<downloader_vars, tk_vars, wcb, wurl, cleaned, fetch_vars, obs_vars,
                   hook_vars, y25_vars, video_title, queue_vars, ffmpeg_path, selected_format, final_path>>

\* download_thread ends
W71_ThreadExit(op) ==
    /\ wpc[op] = "v71_return"
    /\ wpc' = [wpc EXCEPT ![op] = "none"]
    /\ wret' = [wret EXCEPT ![op] = None]
    /\ wcb' = [wcb EXCEPT ![op] = 0]
    /\ wurl' = [wurl EXCEPT ![op] = None]
    /\ events' = [events EXCEPT ![op] = <<>>]
    /\ outcome_calls' = <<>>
    /\ selected_format' = [selected_format EXCEPT ![op] = ""]
    /\ final_path' = [final_path EXCEPT ![op] = 0]
    /\ NoReturn
    /\ UNCHANGED <<downloader_vars, app_vars, tk_vars, cleaned, fetch_vars, accepted,
                   hook_vars, y25_vars, video_title, queue_vars, ffmpeg_path, temp_dir, download_dir>>

\* the Cancel button: DownloadManagerApp.cancel_download up to its dialog
ClickCancel71 ==
    /\ fg = Idle /\ cancel_button = NORMAL
    /\ fg' = IF download_in_progress THEN [pc |-> "askyesno", ctx |-> "cancel"] ELSE Idle
    /\ NoReturn
    /\ UNCHANGED <<downloader_vars, app_vars, after_queue, closed, worker_vars,
                   fetch_vars, obs_vars, other_vars>>

\* the dialog returns; on yes YoutubeDownloader.cancel_download() is called
\* (lines 328-339) and on its False the Cancel button is disabled
AnswerCancel71(yes) ==
    /\ fg = [pc |-> "askyesno", ctx |-> "cancel"]
    /\ fg' = Idle
    /\ IF ~yes
       THEN NoReturn /\ UNCHANGED <<cancel_requested, cancel_button>>
       ELSE IF downloading
       THEN /\ cancel_requested' = TRUE
            /\ cancel_ret' = "True"
            /\ UNCHANGED cancel_button
       ELSE /\ cancel_ret' = "False"
            /\ cancel_button' = DISABLED
            /\ UNCHANGED cancel_requested
    /\ UNCHANGED <<downloading, ydl_instance, current_info, info_cache,
                   download_in_progress, download_button, fetch_button, video_info,
                   after_queue, closed, worker_vars, fetch_vars, obs_vars, other_vars>>

\* the raw callbacks the library makes in the specifications of v7.1
Callbacks71 ==
    {Raw("downloading", MaxTotal, MaxTotal, 0), Raw("downloading", MaxTotal, 0, 0),
     Raw("finished", 0, 0, 0)}

\* the formats of get_selected_format: none selected, the audio conversion,
\* a video format
Formats71 == {"", "mp3", "video"}

\* the state after the two __init__: get_ffmpeg_path() has found ffmpeg or
\* has not
Init71 ==
    /\ InitApp
    /\ hook_total = 0
    /\ hook_downloaded = 0
    /\ hook_percent = 0
    /\ hook_event = <<>>
    /\ hook_event71 = <<>>
    /\ ffmpeg_path \in BOOLEAN

App71(slots, callbacks) ==
    \/ \E url \in ProtocolEntries, found \in BOOLEAN : Fetch71(url, found)
    \/ \E format \in Formats71, dir_ok \in BOOLEAN : ClickDownload71(slots, format, dir_ok)
    \/ \E op \in slots, outcome \in {"ok", "DownloadError"} : W71_ExtractInfo(op, outcome)
    \/ \E op \in slots, d \in Callbacks71 : W71_Callback(op, d, callbacks)
    \/ \E op \in slots, outcome \in {"ok", "DownloadError", "OSError"}, listed \in BOOLEAN :
           W71_DownloadReturns(op, outcome, listed)
    \/ \E op \in slots, moved \in BOOLEAN : W71_Move(op, moved)
    \/ \E op \in slots : W71_ThreadExit(op)
    \/ ClickCancel71
    \/ \E yes \in BOOLEAN : AnswerCancel71(yes)

Next71 == App71({Op71}, MaxSeqCallbacks)

Spec71 == Init71 /\ [][Next71]_vars

Next71Par ==
    \/ App71(Ops, MaxCallbacks)
    \/ \E url \in ProtocolEntries, found \in BOOLEAN : PressReturn71(url, found)

Spec71Par == Init71 /\ [][Next71Par]_vars

\* ------------------------------------------------ YTDownloader2025 (Spec25)
\* The first variant has no worker thread: DownloadManagerApp.download_video
\* runs download_video_with_progress on the foreground thread.
Entries25 == {"bad", "A", "B"}
OutputFormats25 == {"mp4", "mp3"}
is_valid_youtube_url25(url) == url \notin {"", "bad"}

\* progress_hook of download_video_with_progress: the value passed to
\* progress_callback, or <<>> when the callback is not called
progress_hook25(d) ==
    IF d.status = "downloading"
    THEN LET total_bytes == IF d.total_bytes # 0 THEN d.total_bytes
                            ELSE d.total_bytes_estimate
             downloaded_bytes == d.downloaded_bytes
         IN  IF total_bytes # 0 /\ downloaded_bytes # 0
             THEN <<PercentOf(downloaded_bytes, total_bytes)>>
             ELSE <<0>>
    ELSE <<>>

\* the Download button, lines 128-145: the URL is validated, the title
\* fetched by get_video_title, queue_vars (which may raise: Tk reports the exception of
\* the callback and no dialog is shown), the output file looked up, and
\* download_video_with_progress entered
ClickDownload25(user_input, output_format, title_found) ==
    /\ pc25 = "idle"
    /\ IF ~is_valid_youtube_url25(user_input)
       THEN /\ messagebox25' = "Invalid URL"
            /\ UNCHANGED <<pc25, output_file25, error_logged25>>
       ELSE IF ~title_found
       THEN UNCHANGED <<pc25, output_file25, error_logged25, messagebox25>>
       ELSE IF <<user_input, output_format>> \in files25
       THEN /\ messagebox25' = "File Already Downloaded"
            /\ UNCHANGED <<pc25, output_file25, error_logged25>>
       ELSE /\ pc25' = "ydl.download"
            /\ output_file25' = <<user_input, output_format>>
            /\ error_logged25' = FALSE
            /\ UNCHANGED messagebox25
    /\ UNCHANGED <<progress25, files25, cb25>>
    /\ UNCHANGED <<downloader_vars, app_vars, tk_vars, worker_vars, fetch_vars, obs_vars,
                   cancel_ret, hook_vars, outcome_calls, files_vars, video_title, queue_vars>>

\* inside ydl.download: the library calls progress_hook(d), which calls
\* update_progress (lines 123-125)
Hook25(d) ==
    /\ pc25 = "ydl.download"
    /\ cb25 < MaxSeqCallbacks
    /\ cb25' = cb25 + 1
    /\ LET progress == progress_hook25(d)
       IN  progress25' = IF progress = <<>> THEN progress25 ELSE progress[1]
    /\ UNCHANGED <<pc25, output_file25, error_logged25, messagebox25, files25>>
    /\ UNCHANGED <<downloader_vars, app_vars, tk_vars, worker_vars, fetch_vars, obs_vars,
                   cancel_ret, hook_vars, outcome_calls, files_vars, video_title, queue_vars>>

\* lines 47-52 and 146-147: ydl.download returns, or raises and the except
\* clause logs the error; download_video_with_progress returns and
\* download_video shows its dialog
DownloadEnds25(raised) ==
    /\ pc25 = "ydl.download"
    /\ pc25' = "idle"
    /\ cb25' = 0
    /\ error_logged25' = raised
    /\ files25' = IF raised THEN files25 ELSE files25 \cup {output_file25}
    /\ messagebox25' = "Download Complete"
    /\ UNCHANGED <<output_file25, progress25>>
    /\ UNCHANGED <<downloader_vars, app_vars, tk_vars, worker_vars, fetch_vars, obs_vars,
                   cancel_ret, hook_vars, outcome_calls, files_vars, video_title, queue_vars>>

\* the raw callbacks the library makes in the specification of the first
\* variant
Callbacks25 ==
    {Raw("downloading", MaxTotal \div 2, MaxTotal, 0), Raw("downloading", MaxTotal, 0, MaxTotal),
     Raw("downloading", MaxTotal, 0, 0), Raw("finished", 0, 0, 0)}

Next25 ==
    \/ \E user_input \in Entries25, output_format \in OutputFormats25, title_found \in BOOLEAN :
           ClickDownload25(user_input, output_format, title_found)
    \/ \E d \in Callbacks25 : Hook25(d)
    \/ \E raised \in BOOLEAN : DownloadEnds25(raised)

Spec25 == Init /\ [][Next25]_vars

\* ------------------------- the queue variant of part_000 (SpecQueue)
\* The third program of src/unnamed/part_000: start_download_thread starts
\* download_video_with_progress on a thread of its own and a timer for
\* check_download_progress; the thread reports through self.q.
OpsQ == 1..MaxDownloadsQ
EntriesQ == {"bad", "A"}
is_valid_youtube_urlQ(url) == url \notin {"", "bad"}

not_queue_vars == <<downloader_vars, app_vars, tk_vars, worker_vars, fetch_vars, obs_vars,
                    cancel_ret, hook_vars, outcome_calls, files_vars, y25_vars, video_title>>

\* the items of the queue: an int or a str, with the download that put it
IntItem(op, n) == [kind |-> "int", progress |-> n, message |-> "", by |-> op]
StrItem(op, m) == [kind |-> "str", progress |-> 0, message |-> m, by |-> op]

\* (putFirst: a queue that hands out its newest item first.)
putFirst(items, item) == <<item>> \o items

\* q.put(item) of queue.Queue: first in, first out
put(items, item) == Append(items, item)

\* progress_hook of download_video_with_progress: the value put on the
\* queue, or <<>> when nothing is put
progress_hookQ(d) ==
    IF d.status = "downloading"
    THEN LET total_bytes == IF d.total_bytes # 0 THEN d.total_bytes
                            ELSE d.total_bytes_estimate
             downloaded_bytes == d.downloaded_bytes
         IN  IF total_bytes # 0 /\ downloaded_bytes # 0
             THEN <<PercentOf(downloaded_bytes, total_bytes)>>
             ELSE <<0>>
    ELSE <<>>

\* the foreground thread is in the main loop, or in the loop a dialog runs
\* while it is open: timers fire in both
TopQ(frame) == IF framesQ = <<>> THEN FALSE ELSE framesQ[Len(framesQ)] = frame
InEventLoop == framesQ = <<>> \/ TopQ("showinfo") \/ TopQ("showerror")
PopQ == SubSeq(framesQ, 1, Len(framesQ) - 1)

\* the Download button: download_video calls start_download_thread, which
\* shows an error for an invalid URL, and otherwise starts the thread and
\* schedules check_download_progress; the dialogs are modal, so the button
\* is out of reach while one is open
start_download_thread(user_input) ==
    /\ framesQ = <<>>
    /\ IF ~is_valid_youtube_urlQ(user_input)
       THEN /\ framesQ' = <<"showerror">>
            /\ UNCHANGED <<threadQ, timersQ>>
       ELSE /\ \E op \in OpsQ :
                  /\ threadQ[op] = "none"
                  /\ \A other \in OpsQ : other < op => threadQ[other] # "none"
                  /\ threadQ' = [threadQ EXCEPT ![op] = "download"]
            /\ timersQ' = timersQ + 1
            /\ UNCHANGED framesQ
    /\ UNCHANGED <<q, cbQ, progressQ, putQ, gotQ, shownQ, not_queue_vars>>

\* a pending root.after callback fires: check_download_progress begins
check_download_progress ==
    /\ InEventLoop
    /\ timersQ > 0
    /\ timersQ' = timersQ - 1
    /\ framesQ' = Append(framesQ, "loop")
    /\ UNCHANGED <<q, threadQ, cbQ, progressQ, putQ, gotQ, shownQ, not_queue_vars>>

\* lines 552-557: q.get_nowait() returns an item; an int goes to
\* update_progress, a str to messagebox.showinfo, which returns when the
\* dialog is dismissed
Q_GetNowait ==
    /\ TopQ("loop")
    /\ q # <<>>
    /\ q' = Tail(q)
    /\ gotQ' = Append(gotQ, Head(q))
    /\ IF Head(q).kind = "int"
       THEN /\ progressQ' = Head(q).progress
            /\ UNCHANGED <<framesQ, shownQ>>
       ELSE /\ shownQ' = Append(shownQ, Head(q))
            /\ framesQ' = Append(PopQ, "showinfo")
            /\ UNCHANGED progressQ
    /\ UNCHANGED <<threadQ, cbQ, timersQ, putQ, not_queue_vars>>

\* lines 558-562: q.get_nowait() raises queue.Empty; check_download_progress
\* schedules itself again and returns
Q_Empty ==
    /\ TopQ("loop")
    /\ q = <<>>
    /\ framesQ' = PopQ
    /\ timersQ' = timersQ + 1
    /\ UNCHANGED <<q, threadQ, cbQ, progressQ, putQ, gotQ, shownQ, not_queue_vars>>

\* the user dismisses the open dialog: showinfo returns into the loop of
\* check_download_progress, showerror into start_download_thread, which
\* returns
DismissQ ==
    /\ \/ TopQ("showinfo") /\ framesQ' = Append(PopQ, "loop")
       \/ TopQ("showerror") /\ framesQ' = PopQ
    /\ UNCHANGED <<q, threadQ, cbQ, timersQ, progressQ, putQ, gotQ, shownQ, not_queue_vars>>

\* inside ydl.download on the thread of download op: the library calls
\* progress_hook(d)
HookQ(op, d) ==
    /\ threadQ[op] = "download"
    /\ cbQ[op] < MaxCallbacksQ
    /\ cbQ' = [cbQ EXCEPT ![op] = @ + 1]
    /\ LET progress == progress_hookQ(d)
       IN  IF progress = <<>> THEN UNCHANGED <<q, putQ>>
           ELSE /\ q' = put(q, IntItem(op, progress[1]))
                /\ putQ' = Append(putQ, IntItem(op, progress[1]))
    /\ UNCHANGED <<threadQ, timersQ, framesQ, progressQ, gotQ, shownQ, not_queue_vars>>

\* lines 454-460: ydl.download returns or raises; the thread puts its
\* message on the queue and ends
DownloadEndsQ(op, raised) ==
    /\ threadQ[op] = "download"
    /\ threadQ' = [threadQ EXCEPT ![op] = "done"]
    /\ LET message == IF raised THEN "Download Error" ELSE "Download Complete"
       IN  /\ q' = put(q, StrItem(op, message))
           /\ putQ' = Append(putQ, StrItem(op, message))
    /\ UNCHANGED <<cbQ, timersQ, framesQ, progressQ, gotQ, shownQ, not_queue_vars>>

\* the raw callbacks the library makes in the specification of the queue
\* variant
CallbacksQ ==
    {Raw("downloading", MaxTotal, MaxTotal, 0), Raw("downloading", MaxTotal, 0, 0),
     Raw("finished", 0, 0, 0)}

NextQueue ==
    \/ \E user_input \in EntriesQ : start_download_thread(user_input)
    \/ check_download_progress
    \/ Q_GetNowait
    \/ Q_Empty
    \/ DismissQ
    \/ \E op \in OpsQ, d \in CallbacksQ : HookQ(op, d)
    \/ \E op \in OpsQ, raised \in BOOLEAN : DownloadEndsQ(op, raised)

SpecQueue == Init /\ [][NextQueue]_vars

\* ------------------------------------------------------------- properties
\* the positions in events[op] of the events with a status of the given set
Positions(op, statuses) == {i \in 1..Len(events[op]) : events[op][i].status \in statuses}

\* download_video of operation op has delivered its events and is about to
\* leave through its finally clause
Returning(op) == wpc[op] = "finally1"

\* a step in which the foreground thread's call of
\* YoutubeDownloader.cancel_download() reads self.downloading: on the Cancel
\* button's path, or in on_closing
CancelCall == fg' # fg /\ (fg.pc = "cancel_read" \/ closed')

\* C1: every invocation of download_video delivers exactly one terminal
\* event ('complete', 'cancelled' or 'error'), and no event after it.
C1_ExactlyOneTerminalEvent ==
    \A op \in Ops :
        /\ Cardinality(Positions(op, Terminal)) <= 1
        /\ \A i \in Positions(op, Terminal) : i = Len(events[op])
        /\ Returning(op) => Cardinality(Positions(op, Terminal)) = 1

\* C2: once cancel_download() has returned True while an operation was
\* active, that operation never delivers 'complete'.
C2_AcceptedCancelNeverCompletes ==
    \A op \in accepted : Positions(op, {"complete"}) = {}

\* C3: at most one worker thread is inside YoutubeDownloader.download_video
\* at any time, whatever the user does.
C3_AtMostOneWorker ==
    Cardinality({op \in Ops : Running(op)}) <= 1

\* C4: every started operation eventually delivers a terminal event, as
\* long as its worker keeps running (the process exiting ends it).
C4_EveryOperationTerminates ==
    \A op \in SeqOps : (wpc[op] = "l489") ~> (HasTerminal(op) \/ closed)

\* an operation that met an exception before any callback has delivered
\* 'error' as its only event
C4_Witness ==
    \E op \in SeqOps : Returning(op) /\ wcb[op] = 0 /\ events[op] = <<Event("error", 0)>>

\* C7: cancel_download() called while no operation is active returns False
\* and leaves cancel_requested, downloading and ydl_instance unchanged.
C7_IdleCancelIsNoOp ==
    [][(CancelCall /\ NoOpActive) =>
           /\ cancel_ret' = "False"
           /\ UNCHANGED <<cancel_requested, downloading, ydl_instance>>]_vars

\* the Cancel button's call has returned False with no worker alive: the
\* download ended while the confirmation dialog was open
C7_Witness ==
    cancel_ret = "False" /\ NoOpActive /\ ~closed

\* C8: after cancel_download() has returned True for an operation, a further
\* call for the same operation returns False.
C8_SecondCancelReturnsFalse ==
    [][((\E op \in accepted : InFlight(op)) /\ cancel_ret' # None) =>
           cancel_ret' = "False"]_vars

\* C9: the events of one operation are zero or more 'downloading', then at
\* most one 'converting', then exactly one terminal event; no 'downloading'
\* follows 'converting'.
C9_EventOrder ==
    \A op \in Ops :
        /\ Cardinality(Positions(op, {"converting"})) <= 1
        /\ \A i \in Positions(op, {"converting"}), j \in Positions(op, {"downloading"}) : j < i
        /\ \A i \in Positions(op, Terminal) : i = Len(events[op])
        /\ Returning(op) => Positions(op, Terminal) # {}

\* C10: for non-decreasing downloaded_bytes and a fixed positive total, the
\* percent of each 'downloading' event is floor(downloaded * 100 / total),
\* and the percents are non-decreasing.
C10_PercentIsFloor ==
    [][(hook_total > 0 /\ hook_downloaded' >= hook_downloaded) =>
           /\ hook_percent' = (hook_downloaded' * 100) \div hook_total
           /\ hook_percent' >= hook_percent]_vars

\* C11: every percent emitted in a 'downloading' event lies in [0, 100] for
\* every callback with a known total, downloaded_bytes above the reported
\* total (total_bytes or total_bytes_estimate) included.
C11_PercentWithinBounds ==
    hook_total > 0 =>
        \A i \in DOMAIN hook_event :
            hook_event[i].status = "downloading" => hook_event[i].percent \in 0..100

\* C12: when neither total_bytes nor total_bytes_estimate is known, no
\* 'downloading' event delivered to progress_callback carries a numeric
\* percent, in V7_TP and in v7.1.
C12_NoPercentWithoutTotal ==
    hook_total = 0 =>
        \A e \in {hook_event[i] : i \in DOMAIN hook_event}
                 \cup {hook_event71[i] : i \in DOMAIN hook_event71} :
            e.status = "downloading" => "percent" \notin DOMAIN e

\* C13: on every outcome of download_video (complete, cancelled, library
\* error, filesystem error, unexpected error) _cleanup_temp_files(download_dir)
\* has run before the terminal progress event of that outcome is delivered.
C13_CleanupBeforeTerminalEvent ==
    \A op \in Ops :
        (wret[op] # None /\ HasTerminal(op)) => cleaned[op]

C15_MoveNeverOverwrites ==
    [][/\ \A k \in Names71 : download_dir[k] # {} => download_dir'[k] = download_dir[k]
       /\ download_dir' # download_dir =>
              \E op \in Ops : /\ wpc[op] = "v71_move"
                              /\ final_path[op] = ExistsLoop71(download_dir, 0)]_vars

\* C19 (v7.1): with ffmpeg not found no download is accepted: no download
\* worker is ever started.
C19_NoWorkerWithoutFfmpeg ==
    ~ffmpeg_path => \A op \in Ops : wpc[op] = "none"

\* C16: download_video never raises to its caller for a library, filesystem
\* or unexpected failure: it returns (title, False), and the failure is
\* reported as the last event, an 'error' event ('cancelled' for a cancel).
C16_FailureNeverRaises ==
    \A op \in Ops :
        /\ wret[op] # "raises"
        /\ wret[op] = "False" =>
               /\ events[op] # <<>>
               /\ events[op][Len(events[op])].status \in {"error", "cancelled"}

\* ydl.download has made callbacks and then failed: download_video is
\* returning (title, False) after its 'error' event
C16_Witness ==
    \E op \in SeqOps :
        /\ Returning(op) /\ wret[op] = "False" /\ wcb[op] > 0
        /\ events[op][Len(events[op])] = Event("error", 0)

\* C17 (YTDownloader2025.py): a download in which the library raised is
\* never reported as a success: the 'Download Complete' dialog is shown only
\* when download_video_with_progress finished without a library error.
C17_CompleteOnlyWithoutLibraryError ==
    messagebox25 = "Download Complete" => ~error_logged25

\* C18: a Download request whose URL is empty or not a supported URL, or
\* whose directory does not exist or is not writable, fails synchronously:
\* no worker thread is started, no progress event is emitted, and
\* download_in_progress and the button states are left unchanged.
C18_InvalidRequestFailsSynchronously ==
    [][\A url \in ProtocolEntries, dir_ok \in BOOLEAN, ffmpeg \in BOOLEAN :
           ((url = "" \/ ~is_valid_youtube_url(url) \/ ~dir_ok)
                /\ ClickDownload(url, dir_ok, ffmpeg, Ops)) =>
               UNCHANGED <<wpc, fpc, events, after_queue, download_in_progress,
                           download_button, cancel_button, fetch_button>>]_vars

\* a request has been rejected, its error dialog is open, and the Download
\* button is as it was: enabled
C18_Witness ==
    /\ fg = [pc |-> "showerror", ctx |-> "download"]
    /\ download_button = NORMAL /\ ~download_in_progress
    /\ video_info # None /\ NoOpActive

\* C20: while an operation is active (from its accepted start to its
\* terminal event) the Download button is disabled and the Cancel button
\* enabled; nothing else, a fetch finishing included, re-enables Download
\* before the terminal event.
C20_ButtonsFollowActivity ==
    (\E op \in Ops : wpc[op] \in {"l489"} \cup InFlightPcs /\ ~HasTerminal(op)) =>
        (download_button = DISABLED /\ cancel_button = NORMAL)

\* C21: download_in_progress and the widget states are written by the
\* foreground thread only: no step of a download worker thread changes them.
C21_ObserverStateOwnedByForeground ==
    [][\A op \in Ops :
           Worker(op, MaxCallbacks) =>
               UNCHANGED <<download_in_progress, download_button, cancel_button,
                           fetch_button>>]_vars

\* C22: after the terminal event of an operation and the exit of its
\* worker the runner is free again, whatever the outcome: downloading is
\* False, cancel_requested is False and ydl_instance is None.
C22_RunnerFreeAfterExit ==
    (NoOpActive /\ ~closed) =>
        (~downloading /\ ~cancel_requested /\ ydl_instance = NoYdl)

\* C23: while a worker is inside download_video, after line 489 and before
\* its terminal event, downloading is True and ydl_instance, once set at
\* line 585, is the library instance of that worker; also when the
\* operation was started before the worker of the previous one ran its
\* finally clause.
C23_FlagsHeldWhileRunning ==
    \A op \in Ops :
        InFlight(op) =>
            /\ downloading
            /\ wpc[op] = "download" => ydl_instance = op

\* C24: an accepted cancel is never lost: once cancel_download() has
\* returned True for an operation, cancel_requested stays True until the
\* terminal event of that operation, under every interleaving with the
\* worker's stores of lines 489-490 and of its finally clause.
C24_AcceptedCancelNeverLost ==
    \A op \in accepted : ~HasTerminal(op) => cancel_requested

\* C25: a call of progress_hook that begins with cancel_requested True
\* delivers no event to progress_callback: a 'downloading' callback raises
\* DownloadCancelledError, which ends the operation with its terminal
\* 'cancelled' event, and 'finished' and 'error' callbacks return silently.
C25_NoEventsAfterCancel ==
    [][\A op \in SeqOps, d \in ProtocolCallbacks :
           (cancel_requested /\ W_Callback(op, d, MaxSeqCallbacks)) =>
               IF d.status = "downloading"
               THEN /\ wpc'[op] = "l629"
                    /\ events'[op] = Append(events[op], Event("cancelled", 0))
               ELSE UNCHANGED <<events, wpc>>]_vars

\* a 'downloading' callback made after the cancel request has ended the
\* operation: 'cancelled' is its only event
C25_Witness ==
    \E op \in SeqOps :
        /\ wpc[op] = "l629" /\ wcb[op] > 0 /\ op \in accepted
        /\ events[op] = <<Event("cancelled", 0)>>

\* C26: the title that download_video(url, ...) reports in its terminal
\* event and returns is the title of the video at url, after any sequence
\* of get_available_formats calls made before the download.
C26_TitleIsOfDownloadedUrl ==
    \A op \in Ops :
        wpc[op] # "none" => video_title[op] \in {"Unknown", wurl[op]}

\* C27 (v7.1): the registered hook YoutubeDownloader.update_progress
\* handles every 'downloading' callback without raising, whether or not the
\* total is known: after such a callback the worker is still downloading and
\* no outcome callback has been made for it.
C27_DownloadingCallbackNeverFails ==
    [][\A d \in Callbacks71 :
           (d.status = "downloading" /\ W71_Callback(Op71, d, MaxSeqCallbacks)) =>
               /\ wpc'[Op71] = "v71_download"
               /\ UNCHANGED <<wret, outcome_calls>>]_vars

\* the items download op has put on the queue, the calls of
\* check_download_progress pending or running, and whether the message of
\* download op has been shown and its dialog dismissed
ItemsOf(op) == SelectSeq(putQ, LAMBDA item : item.by = op)
IsStr(item) == item.kind = "str"
PollersQ == timersQ + Cardinality({i \in 1..Len(framesQ) : framesQ[i] # "showerror"})
DeliveredQ(op) == /\ \E i \in 1..Len(shownQ) : shownQ[i].by = op
                  /\ framesQ = <<>>

C29_OnePollerThatStops ==
    /\ PollersQ <= 1
    /\ (\A op \in OpsQ : threadQ[op] # "none" => DeliveredQ(op)) => timersQ = 0

\* C30: when the window is closed during a download and the user declines
\* the quit, on_closing changes nothing: the window stays open,
\* cancel_requested is not set and the workers are left alone; when the user
\* confirms, the window is destroyed only after on_closing's
\* cancel_download() call has returned.
C30_DeclinedQuitChangesNothing ==
    [][/\ AnswerQuit(FALSE) =>
              /\ fg' = Idle
              /\ UNCHANGED <<downloader_vars, app_vars, after_queue, closed, worker_vars,
                             fetch_vars, obs_vars>>
       /\ OnClosing => UNCHANGED <<downloader_vars, app_vars, after_queue, closed,
                                   worker_vars, fetch_vars, obs_vars>>
       /\ (fg.ctx = "closing" /\ closed' /\ ~closed) => fg.pc = "cleanup"
       /\ (fg.pc # "cleanup" /\ fg'.pc = "cleanup") =>
              /\ fg.pc \in {"cancel_read", "cancel_write"} /\ fg.ctx = "closing"
              /\ cancel_ret' \in {"True", "False"}]_vars

C30_Witness ==
    /\ fg = [pc |-> "cleanup", ctx |-> "closing"]
    /\ ~closed
    /\ cancel_requested
    /\ \E op \in SeqOps : InFlight(op) /\ op \in accepted

\* C5 (v7.1): every download ends with exactly one of _on_download_complete
\* and _on_download_error invoked.
C5_ExactlyOneOutcomeCallback ==
    wpc[Op71] = "v71_return" => Len(outcome_calls) = 1

\* C6 (v7.1): cancel_download() called while the worker is inside
\* download_video returns True and sets cancel_requested.
C6_CancelAcceptedWhileRunning ==
    [][(cancel_ret' # None /\ wpc[Op71] \in InDownloadVideo71) =>
           (cancel_ret' = "True" /\ cancel_requested')]_vars

====
